---- MODULE Spec2Model ----
(***************************************************************************)
(* LRU cache with TTL expiry, after src/multi_storage_lru_cache.ts.        *)
(*                                                                         *)
(* The file holds two cache classes of the same name:                      *)
(*   - the multi-storage LRUCacheWithExpiry (lines 187-236), a facade over *)
(*     a CacheStorage backend (MemoryStorage lines 12-40, FileStorage      *)
(*     lines 72-121);                                                      *)
(*   - the in-memory LRUCacheWithExpiry (lines 270-368), which owns its    *)
(*     Map and does the LRU bookkeeping itself.                            *)
(* Variable impl says which of them a behaviour is about:                  *)
(*   "inmem"  the in-memory class,                                         *)
(*   "memory" the multi-storage class over MemoryStorage,                  *)
(*   "file"   the multi-storage class over FileStorage.                    *)
(* Time is Date.now() in units of one tick of the model's clock.           *)
(***************************************************************************)
EXTENDS Integers, Sequences, FiniteSets, TLC

\* ---------------------------------------------------------------- bounds
MaxTime == 3
MaxStops == 2

\* ------------------------------------------- constructor parameters
Capacity == 2
TTL == 1
ExpiryCheckInterval == 1

\* The miss sentinel returned by every get.
MISS == -1

\* The keys callers use: one more than Capacity, so that a put can overflow.
Keys == {1, 2, 3}
\* The keys callers use on a file-backed cache.
FileKeys == {1, 2}
KeysOf(i) == IF i = "file" THEN FileKeys ELSE Keys
\* Stored values; T is generic, so the sentinel itself is a storable value.
Values == {MISS, 10}

Impls == {"inmem", "memory", "file"}

VARIABLES
    impl,        \* which class / backend this behaviour runs
    cache,       \* the Map, as the sequence of its entries in insertion order
    now,         \* Date.now()
    expiryTimer, \* TRUE while the setInterval timer is armed
    nextFire,    \* the time of the timer's next callback while armed
    file,        \* FileStorage: the content of filePath
    loading,     \* FileStorage: loadFromFile() started by the constructor is pending
    pc,          \* the foreground caller: "idle", or "saving" inside an awaited saveToFile
    pend,        \* the operation suspended in saveToFile and the data it is writing
    alive,       \* the process is running
    last,        \* the operation that completed last and what it returned
    stops,       \* number of stop calls so far
    flushes      \* number of saveToFile calls made by FileStorage.stop

vars == <<impl, cache, now, expiryTimer, nextFire, file, loading, pc, pend,
          alive, last, stops, flushes>>

\* ------------------------------------------------------------ JS Map
\* Position of key k in the Map's iteration order, 0 when absent.
MapIndex(c, k) ==
    IF \E i \in 1..Len(c) : c[i].key = k
    THEN CHOOSE i \in 1..Len(c) : c[i].key = k
    ELSE 0

MapHas(c, k) == MapIndex(c, k) # 0

MapGet(c, k) == c[MapIndex(c, k)]

MapDelete(c, k) == SelectSeq(c, LAMBDA e : e.key # k)

\* Map.prototype.set: a new key is appended; an existing key keeps its position.
MapSet(c, k, v, e) ==
    IF MapHas(c, k)
    THEN [c EXCEPT ![MapIndex(c, k)] = [key |-> k, value |-> v, expiry |-> e]]
    ELSE Append(c, [key |-> k, value |-> v, expiry |-> e])

MapKeys(c) == {c[i].key : i \in 1..Len(c)}

\* ------------------------------------------------------- shared pieces
\* A get that forgets the expiry comparison.
IsExpired_unchecked(item, t) == FALSE

\* item.expiry < Date.now()
IsExpired(item, t) == item.expiry < t

\* A stop that leaves the interval timer armed.
ClearInterval_kept(timer) == timer

\* clearInterval(this.expiryTimer)
ClearInterval(timer) == FALSE

NoOp == [op |-> "none", key |-> 0, val |-> 0, res |-> 0, why |-> "none", at |-> 0]

\* A completed call: its arguments, what it returned, and when it was issued.
Done(op, k, v, r, w, t) ==
    [op |-> op, key |-> k, val |-> v, res |-> r, why |-> w, at |-> t]

NoPend == [op |-> "none", key |-> 0, val |-> 0, why |-> "none", at |-> 0, data |-> <<>>]

\* ------------------------------------------------------------ Init
\* JSON.stringify(Array.from(this.cache.entries())): an array of [key, entry] pairs.
Serialize(c) ==
    [i \in 1..Len(c) |-> <<c[i].key, [value |-> c[i].value, expiry |-> c[i].expiry]>>]

\* new Map(JSON.parse(data)): the pairs back into entries, in the array's order.
Parse(d) ==
    [i \in 1..Len(d) |-> [key |-> d[i][1], value |-> d[i][2].value, expiry |-> d[i][2].expiry]]

\* A file that is missing or does not parse: readFile or JSON.parse throws.
Unreadable == [ok |-> FALSE, data |-> <<>>]

\* What filePath can hold when a FileStorage is constructed: nothing readable, or
\* the entries an earlier run saved (a put of key 1 made one tick before this run).
InitialFiles ==
    {Unreadable,
     [ok |-> TRUE, data |-> Serialize(<<[key |-> 1, value |-> 10, expiry |-> TTL - 1]>>)]}

Init ==
    /\ impl \in Impls
    /\ cache = <<>>
    /\ now = 0
    /\ expiryTimer = TRUE
    /\ nextFire = ExpiryCheckInterval
    /\ file \in (IF impl = "file" THEN InitialFiles ELSE {Unreadable})
    /\ loading = (impl = "file")
    /\ pc = "idle"
    /\ pend = NoPend
    /\ alive = TRUE
    /\ last = NoOp
    /\ stops = 0
    /\ flushes = 0

\* ------------------------------------------------------------- clock
\* Date.now() moves on. An armed interval timer fires when it is due, so time
\* does not pass the due time of a callback that has not run.
Advance ==
    /\ alive
    /\ now < MaxTime
    /\ expiryTimer => now < nextFire
    /\ now' = now + 1
    /\ last' = NoOp
    /\ UNCHANGED <<impl, cache, expiryTimer, nextFire, file, loading, pc, pend,
                   alive, stops, flushes>>

\* ------------------------------------- in-memory LRUCacheWithExpiry
\* A get that re-stamps the entry it promotes (a sliding TTL).
InMem_touch_sliding(c, k) ==
    Append(MapDelete(c, k), [MapGet(c, k) EXCEPT !.expiry = now + TTL])

\* get, lines 316-318: delete the key and set it again with the same entry.
InMem_touch(c, k) == Append(MapDelete(c, k), MapGet(c, k))

\* A get that, finding its key expired, purges every expired entry.
InMem_getCache_purging(c, k, t) ==
    IF ~MapHas(c, k) THEN c
    ELSE IF IsExpired(MapGet(c, k), t) THEN SelectSeq(c, LAMBDA e : ~IsExpired(e, t))
    ELSE InMem_touch(c, k)

\* The Map after get(key) at time t.
InMem_getCache(c, k, t) ==
    IF ~MapHas(c, k) THEN c
    ELSE IF IsExpired(MapGet(c, k), t) THEN MapDelete(c, k)
    ELSE InMem_touch(c, k)

\* What get(key) returns at time t.
InMem_getResult(c, k, t) ==
    IF ~MapHas(c, k) THEN MISS
    ELSE IF IsExpired(MapGet(c, k), t) THEN MISS
    ELSE MapGet(c, k).value

\* Which branch of get ran: a model-only label of the return statement taken.
GetWhy(c, k, t) ==
    IF ~MapHas(c, k) THEN "absent"
    ELSE IF IsExpired(MapGet(c, k), t) THEN "expired"
    ELSE "hit"

InMem_get(k) ==
    /\ alive
    /\ impl = "inmem"
    /\ cache' = InMem_getCache(cache, k, now)
    /\ last' = Done("get", k, 0, InMem_getResult(cache, k, now), GetWhy(cache, k, now), now)
    /\ UNCHANGED <<impl, now, expiryTimer, nextFire, file, loading, pc, pend,
                   alive, stops, flushes>>

\* Which branches of put ran: a model-only label. A new key that finds the Map
\* full makes size > capacity true at line 340.
PutWhy(c, k) ==
    IF MapHas(c, k) THEN "update"
    ELSE IF Len(c) >= Capacity THEN "evict"
    ELSE "insert"

\* put, lines 330-337: delete an existing key, then set it with a fresh expiry.
InMem_insert(c, k, v, t) ==
    Append(IF MapHas(c, k) THEN MapDelete(c, k) ELSE c,
           [key |-> k, value |-> v, expiry |-> t + TTL])

\* An eviction that takes the newest key instead of the oldest.
InMem_evict_newest(c) ==
    IF Len(c) > Capacity THEN MapDelete(c, c[Len(c)].key) ELSE c

\* put, lines 340-343: over capacity, delete the first key of the Map.
InMem_evict(c) ==
    IF Len(c) > Capacity THEN MapDelete(c, c[1].key) ELSE c

InMem_put(k, v) ==
    /\ alive
    /\ impl = "inmem"
    /\ cache' = InMem_evict(InMem_insert(cache, k, v, now))
    /\ last' = Done("put", k, v, 0, PutWhy(cache, k), now)
    /\ UNCHANGED <<impl, now, expiryTimer, nextFire, file, loading, pc, pend,
                   alive, stops, flushes>>

\* A sweep that decides by the value a get returns (the test of line 223): an
\* entry whose value is the sentinel goes too.
InMem_purge_bySentinel(c, t) ==
    SelectSeq(c, LAMBDA e : ~IsExpired(e, t) /\ e.value # MISS)

\* The timer callback, lines 351-356: delete every entry with expiry < now.
InMem_purge(c, t) == SelectSeq(c, LAMBDA e : ~IsExpired(e, t))

InMem_startExpiryAutomation ==
    /\ alive
    /\ impl = "inmem"
    /\ expiryTimer
    /\ now = nextFire
    /\ cache' = InMem_purge(cache, now)
    /\ nextFire' = nextFire + ExpiryCheckInterval
    /\ last' = Done("tick", 0, 0, 0, "none", now)
    /\ UNCHANGED <<impl, now, expiryTimer, file, loading, pc, pend, alive,
                   stops, flushes>>

InMem_stopExpiryAutomation ==
    /\ alive
    /\ impl = "inmem"
    /\ stops < MaxStops
    /\ expiryTimer' = (IF expiryTimer THEN ClearInterval(expiryTimer) ELSE expiryTimer)
    /\ nextFire' = (IF expiryTimer' THEN nextFire ELSE 0)
    /\ stops' = stops + 1
    /\ last' = Done("stop", 0, 0, 0, "none", now)
    /\ UNCHANGED <<impl, cache, now, file, loading, pc, pend, alive,
                   flushes>>

NextInMem ==
    \/ \E k \in Keys : InMem_get(k)
    \/ \E k \in Keys, v \in Values : InMem_put(k, v)
    \/ InMem_startExpiryAutomation
    \/ InMem_stopExpiryAutomation

\* ---------------------------------------------------- MemoryStorage
\* get, lines 19-26 (FileStorage.get, lines 97-105, does the same to its Map):
\* an absent or expired key is deleted; a live entry is left where it is.
MemoryStorage_getCache(c, k, t) ==
    IF ~MapHas(c, k) THEN c
    ELSE IF IsExpired(MapGet(c, k), t) THEN MapDelete(c, k)
    ELSE c

MemoryStorage_getResult(c, k, t) ==
    IF ~MapHas(c, k) THEN MISS
    ELSE IF IsExpired(MapGet(c, k), t) THEN MISS
    ELSE MapGet(c, k).value

\* put, lines 28-31 (FileStorage.put, lines 107-109): Map.set with a fresh expiry.
MemoryStorage_put(c, k, v, t) == MapSet(c, k, v, t + TTL)

\* ------------------------------- multi-storage LRUCacheWithExpiry
\* get, lines 209-211. Over MemoryStorage the call runs to its return without
\* suspending. Over FileStorage a hit returns at once, and a miss awaits
\* saveToFile, whose data is serialized before the write is issued.
Core_get(k) ==
    /\ alive
    /\ impl \in {"memory", "file"}
    /\ pc = "idle"
    /\ cache' = MemoryStorage_getCache(cache, k, now)
    /\ IF impl = "file" /\ GetWhy(cache, k, now) # "hit"
       THEN /\ pc' = "saving"
            /\ pend' = [op |-> "get", key |-> k, val |-> 0,
                        why |-> GetWhy(cache, k, now), at |-> now,
                        data |-> Serialize(cache')]
            /\ last' = NoOp
       ELSE /\ last' = Done("get", k, 0, MemoryStorage_getResult(cache, k, now),
                            GetWhy(cache, k, now), now)
            /\ UNCHANGED <<pc, pend>>
    /\ UNCHANGED <<impl, now, expiryTimer, nextFire, file, loading, alive,
                   stops, flushes>>

\* put, lines 213-215: storage.put and nothing else.
Core_put(k, v) ==
    /\ alive
    /\ impl \in {"memory", "file"}
    /\ pc = "idle"
    /\ cache' = MemoryStorage_put(cache, k, v, now)
    /\ IF impl = "file"
       THEN /\ pc' = "saving"
            /\ pend' = [op |-> "put", key |-> k, val |-> v,
                        why |-> (IF MapHas(cache, k) THEN "update" ELSE "insert"),
                        at |-> now, data |-> Serialize(cache')]
            /\ last' = NoOp
       ELSE /\ last' = Done("put", k, v, 0, IF MapHas(cache, k) THEN "update" ELSE "insert", now)
            /\ UNCHANGED <<pc, pend>>
    /\ UNCHANGED <<impl, now, expiryTimer, nextFire, file, loading, alive,
                   stops, flushes>>

\* The class declares no delete method (lines 187-236): the call throws a
\* TypeError and reaches no storage.
Core_delete(k) ==
    /\ alive
    /\ impl \in {"memory", "file"}
    /\ pc = "idle"
    /\ last' = Done("delete", k, 0, 0, "TypeError", now)
    /\ UNCHANGED <<impl, cache, now, expiryTimer, nextFire, file, loading, pc,
                   pend, alive, stops, flushes>>

\* stop, lines 230-235: clear the timer, then storage.stop(). MemoryStorage.stop
\* does nothing; FileStorage.stop (lines 118-120) calls saveToFile every time.
Core_stop ==
    /\ alive
    /\ impl \in {"memory", "file"}
    /\ pc = "idle"
    /\ stops < MaxStops
    /\ expiryTimer' = (IF expiryTimer THEN ClearInterval(expiryTimer) ELSE expiryTimer)
    /\ nextFire' = (IF expiryTimer' THEN nextFire ELSE 0)
    /\ stops' = stops + 1
    /\ IF impl = "file"
       THEN /\ pc' = "saving"
            /\ pend' = [op |-> "stop", key |-> 0, val |-> 0, why |-> "none",
                        at |-> now, data |-> Serialize(cache)]
            /\ flushes' = flushes + 1
            /\ last' = NoOp
       ELSE /\ last' = Done("stop", 0, 0, 0, "none", now)
            /\ UNCHANGED <<pc, pend, flushes>>
    /\ UNCHANGED <<impl, cache, now, file, loading, alive>>

\* saveToFile, lines 92-95: the write lands and the awaiting operation returns.
saveToFile ==
    /\ alive
    /\ pc = "saving"
    /\ file' = [ok |-> TRUE, data |-> pend.data]
    /\ pc' = "idle"
    /\ pend' = NoPend
    /\ last' = Done(pend.op, pend.key, pend.val, IF pend.op = "get" THEN MISS ELSE 0,
                  pend.why, pend.at)
    /\ UNCHANGED <<impl, cache, now, expiryTimer, nextFire, loading, alive,
                   stops, flushes>>

\* A failed write caught and reported as a miss.
Rejected_asMiss(p) ==
    Done(p.op, p.key, p.val, MISS, p.why, p.at)

\* What the caller of get, put or stop sees when the awaited saveToFile rejects:
\* no method has a try/catch (lines 97-120), so the call rejects with the error
\* and returns no value.
Rejected(p) ==
    Done(p.op, p.key, p.val, 0, "IOError", p.at)

\* What a failed write leaves on disk. fs.writeFile opens filePath with flag
\* 'w', which truncates it, and then writes: a write that breaks off (ENOSPC,
\* EIO) leaves a truncated file, which does not parse.
FailedWriteOutcomes == {Unreadable}

\* saveToFile, lines 92-95, when fs.writeFile rejects. The Map keeps the change
\* the operation made before it saved.
saveToFile_rejects ==
    /\ alive
    /\ pc = "saving"
    /\ file' \in FailedWriteOutcomes
    /\ pc' = "idle"
    /\ pend' = NoPend
    /\ last' = Rejected(pend)
    /\ UNCHANGED <<impl, cache, now, expiryTimer, nextFire, loading, alive,
                   stops, flushes>>

\* What readFile + JSON.parse yield: the file's entries, or a throw. fs.writeFile
\* is not atomic, so a read that overlaps a write in flight may also see a
\* truncated file, which does not parse.
ReadOutcomes ==
    {file} \cup (IF pc = "saving" THEN {Unreadable} ELSE {})

\* loadFromFile, lines 82-90, started and not awaited by the constructor (line
\* 79): when the read completes it replaces the Map, whatever was put meanwhile.
loadFromFile ==
    /\ alive
    /\ loading
    /\ \E r \in ReadOutcomes :
          cache' = (IF r.ok THEN Parse(r.data) ELSE <<>>)
    /\ loading' = FALSE
    /\ last' = Done("load", 0, 0, 0, "none", now)
    /\ UNCHANGED <<impl, now, expiryTimer, nextFire, file, pc, pend, alive,
                   stops, flushes>>

\* What an unhandled promise rejection does to the process: the runtime either
\* only warns, or raises it as an uncaught exception that ends the process.
RejectionOutcomes == {TRUE, FALSE}

\* The timer callback, lines 218-227. Over MemoryStorage it calls
\* storage.keys(), which MemoryStorage (lines 12-40) does not define: the async
\* callback rejects with a TypeError before it deletes anything. Over any other
\* storage keysToDelete stays empty. No entry is ever deleted.
Core_startExpiryAutomation ==
    /\ alive
    /\ impl \in {"memory", "file"}
    /\ expiryTimer
    /\ now = nextFire
    /\ nextFire' = nextFire + ExpiryCheckInterval
    /\ last' = Done("tick", 0, 0, 0, IF impl = "memory" THEN "TypeError" ELSE "none", now)
    /\ alive' \in (IF impl = "memory" THEN RejectionOutcomes ELSE {TRUE})
    /\ UNCHANGED <<impl, cache, now, expiryTimer, file, loading, pc, pend,
                   stops, flushes>>

NextCore ==
    \/ \E k \in KeysOf(impl) : Core_get(k)
    \/ \E k \in KeysOf(impl), v \in Values : Core_put(k, v)
    \/ \E k \in KeysOf(impl) : Core_delete(k)
    \/ Core_stop
    \/ saveToFile
    \/ saveToFile_rejects
    \/ loadFromFile
    \/ Core_startExpiryAutomation

Next == Advance \/ NextInMem \/ NextCore

Spec == Init /\ [][Next]_vars

\* ============================================================ claims
Multi == {"memory", "file"}

\* The key at the most-recently-used end of the Map, 0 when the Map is empty.
MruKey(c) == IF Len(c) = 0 THEN 0 ELSE c[Len(c)].key

PutStep(k) == \E v \in Values : InMem_put(k, v) \/ Core_put(k, v)
GetStep(k) == InMem_get(k) \/ Core_get(k)
TickStep == InMem_startExpiryAutomation \/ Core_startExpiryAutomation

\* C1: immediately after a put returns, at most Capacity entries are resident.
\* The multi-storage put never evicts, so this fails.
C1_CapacityAfterPut ==
    last.op = "put" => Len(cache) <= Capacity

\* What C2 asks of one step of the in-memory class or of MemoryStorage.
LruStep ==
    impl \in {"inmem", "memory"} =>
        /\ (last'.op = "get" /\ last'.why = "hit") => MruKey(cache') = last'.key
        /\ last'.op = "put" =>
              /\ MruKey(cache') = last'.key
              /\ (~MapHas(cache, last'.key) /\ Len(cache) >= Capacity) =>
                    MapKeys(cache') = (MapKeys(cache) \ {cache[1].key}) \cup {last'.key}

\* C2: a get that returns a live value and every put leave their key at the
\* most-recently-used end, and a put that overflows evicts the head of the
\* recency order. Stated for the in-memory class and for MemoryStorage; it
\* fails on MemoryStorage, whose get and put do not reorder and whose cache
\* never evicts.
C2_LruOrder == [][LruStep]_vars

\* C3 as written: a get returns MISS whenever the entry's expiry is at or
\* before the time of the get, so a get that returns a value finds
\* expiry > now. Fails at expiry = now.
C3_MissAtOrBeforeExpiry ==
    (last.op = "get" /\ last.why = "hit") =>
        \A i \in 1..Len(cache) : cache[i].key = last.key => cache[i].expiry > now

\* C3 amended: a get that does not fail on backend I/O returns MISS for every
\* resident entry whose expiry is strictly before the time of the get, purged
\* or not; a get that returns a value returns the value of a resident entry
\* whose expiry is at or after the time of the get.
C3_MissStrictlyAfterExpiry ==
    last.op = "get" =>
        /\ last.why = "hit" =>
              /\ MapHas(cache, last.key)
              /\ MapGet(cache, last.key).expiry >= now
              /\ last.res = MapGet(cache, last.key).value
        /\ last.why \in {"absent", "expired"} => last.res = MISS

\* A get found a resident entry past its expiry and returned MISS.
C3_Witness ==
    last.op = "get" /\ last.why = "expired" /\ last.res = MISS

\* C4: on the multi-storage cache, once put(k, v) has returned and before its
\* TTL has elapsed, a get(k) returns v. Fails on FileStorage, whose pending
\* initial load replaces the Map the put wrote to.
C4_PutThenGet ==
    (impl \in Multi /\ last.op = "put" /\ now < last.at + TTL) =>
        /\ GetWhy(cache, last.key, now) = "hit"
        /\ MemoryStorage_getResult(cache, last.key, now) = last.val

\* What C5 asks of one step of the in-memory class or of MemoryStorage.
PutExistingStep ==
    (impl \in {"inmem", "memory"} /\ last'.op = "put" /\ MapHas(cache, last'.key)) =>
        /\ Len(cache') = Len(cache)
        /\ cache'[Len(cache')] =
              [key |-> last'.key, value |-> last'.val, expiry |-> now + TTL]

\* C5: a put on a resident key replaces its value, sets its expiry to the time
\* of the put plus TTL, moves it to the most-recently-used end and keeps the
\* number of entries. Stated for the in-memory class and for MemoryStorage; it
\* fails on MemoryStorage, where Map.set leaves an existing key in its place.
C5_PutExisting == [][PutExistingStep]_vars

\* The expiry of every key resident before and after the step is unchanged,
\* unless the step is a put of that key or FileStorage's initial load.
ExpiryKeptStep ==
    \A i \in 1..Len(cache), j \in 1..Len(cache') :
        (cache[i].key = cache'[j].key /\ cache[i].expiry # cache'[j].expiry)
        => \/ PutStep(cache[i].key) /\ cache'[j].expiry = now + TTL
           \/ loadFromFile

\* C6: only a put of a key changes that key's expiry (to the time of the put
\* plus TTL); a get, a sweep or a stop leaves the expiry of every entry that
\* stays resident as it was. (The one other writer is FileStorage's initial
\* load, which replaces the whole Map.)
C6_NoSlidingTTL == [][ExpiryKeptStep]_vars

\* A get returned a live value some time after the put, and the entry still
\* carries the put's expiry, not one counted from the get.
C6_Witness ==
    /\ last.op = "get"
    /\ last.why = "hit"
    /\ MapHas(cache, last.key)
    /\ MapGet(cache, last.key).expiry < now + TTL

\* C7: after delete(k) returns without error, get(k) returns MISS. The
\* multi-storage class has no delete, so the call fails and k stays resident.
C7_DeleteRemoves ==
    last.op = "delete" =>
        /\ GetWhy(cache, last.key, now) = "absent"
        /\ MemoryStorage_getResult(cache, last.key, now) = MISS

\* C8: however often stop is called, the backend is flushed at most once.
\* FileStorage.stop saves on every call.
C8_StopIdempotent ==
    flushes <= 1

StopStep == Core_stop \/ InMem_stopExpiryAutomation

C10_SweepPurges ==
    (impl \in {"inmem", "memory"} /\ alive /\ expiryTimer) =>
        \A i \in 1..Len(cache) : now <= cache[i].expiry + ExpiryCheckInterval

\* What C11 asks of one step: a get, put or stop whose write failed ends in an
\* error and not in MISS; a get of an absent or expired key that needs no
\* write, or whose write lands, returns MISS and no error.
IoFailureStep ==
    /\ saveToFile_rejects => (last'.why = "IOError" /\ last'.res # MISS)
    /\ (saveToFile /\ pend.op = "get") =>
          (last'.res = MISS /\ last'.why \in {"absent", "expired"})
    /\ (last'.op = "get" /\ pc = "idle" /\ pc' = "idle") =>
          ((GetStep(last'.key) /\ GetWhy(cache, last'.key, now) # "hit")
           => (last'.res = MISS /\ last'.why \in {"absent", "expired"}))

\* C11: a backend I/O failure during an operation reaches the caller as a
\* failure and never as MISS; a get of an absent or expired key whose backend
\* call succeeds returns MISS.
C11_IoFailurePropagates == [][IoFailureStep]_vars

\* A get of an absent or expired key over FileStorage has failed on its write.
C11_Witness ==
    /\ impl = "file"
    /\ last.op = "get"
    /\ last.why = "IOError"

\* C12: a get returns MISS exactly when its key is absent or expired, so MISS
\* is told apart from every stored value. A live entry holding -1 reads as MISS.
C12_MissDistinct ==
    last.op = "get" => (last.res = MISS <=> last.why # "hit")

\* The entries the file holds, none when it does not parse.
Persisted == IF file.ok THEN Parse(file.data) ELSE <<>>

\* What C13 asks of a get on a FileStorage constructed over a persisted file: a
\* key the file holds with an expiry not yet passed reads as the value the file
\* holds.
RoundTripStep ==
    \A k \in FileKeys :
        (Core_get(k) /\ impl = "file" /\ MapHas(Persisted, k)
            /\ MapGet(Persisted, k).expiry >= now)
        => /\ GetWhy(cache, k, now) = "hit"
           /\ MemoryStorage_getResult(cache, k, now) = MapGet(Persisted, k).value
           /\ MapGet(cache, k).expiry = MapGet(Persisted, k).expiry

\* C13: a backend constructed over the state an earlier instance persisted
\* answers every get with the persisted value, expiry and classification, at
\* any point after construction, before the initial load has completed too.
\* The constructor does not await the load, and until it completes the Map is
\* empty.
C13_RoundTrip == [][RoundTripStep]_vars

\* A sweep step removes no entry that is live at the time of the sweep, and
\* keeps the entries it leaves in their order.
SweepKeepsLiveStep ==
    TickStep =>
        /\ \A i \in 1..Len(cache) :
              cache[i].expiry >= now => \E j \in 1..Len(cache') : cache'[j] = cache[i]
        /\ cache' = SelectSeq(cache, LAMBDA e : MapHas(cache', e.key))

\* C16: a sweep removes an entry only if it is expired; a live entry survives
\* the sweep whatever its value, the sentinel included.
C16_SweepOnlyExpired == [][SweepKeepsLiveStep]_vars

\* The in-memory sweep has run and a live entry holding the sentinel is still
\* resident.
C16_Witness ==
    /\ impl = "inmem"
    /\ last.op = "tick"
    /\ \E i \in 1..Len(cache) : cache[i].value = MISS /\ cache[i].expiry >= now

UnreadableLoadStep ==
    (loadFromFile /\ ~file.ok) => cache' = cache

\* C18: over a missing or malformed blob the backend behaves as a fresh store.
\* The load's catch branch (line 88) replaces the Map, dropping earlier puts.
C18_UnreadableBlobFreshStore == [][UnreadableLoadStep]_vars

\* What C19 asks of a put of the in-memory class.
InMemPutStep ==
    \A k \in Keys, v \in Values :
        InMem_put(k, v) =>
            /\ MapHas(cache', k)
            /\ MapGet(cache', k).value = v
            /\ \/ MapKeys(cache') = MapKeys(cache) \cup {k}
               \/ /\ Len(cache) > 0
                  /\ cache[1].key # k
                  /\ MapKeys(cache') = (MapKeys(cache) \cup {k}) \ {cache[1].key}

\* C19: after put(k, v) of the in-memory class k is resident with value v, and
\* the resident keys are the earlier ones plus k, less at most one key, which
\* is the head of the recency order and is not k.
C19_PutEvictsAtMostHead == [][InMemPutStep]_vars

\* A put of a new key into a full in-memory cache has just evicted.
C19_Witness ==
    /\ impl = "inmem"
    /\ last.op = "put"
    /\ last.why = "evict"
    /\ Len(cache) = Capacity
    /\ MruKey(cache) = last.key

\* The entries of c other than key k, in order.
Others(c, k) == SelectSeq(c, LAMBDA e : e.key # k)

\* What C20 asks of a get; the key of the step is the key of the call that has
\* just returned or has just started its save.
GetFrameStep ==
    (pc = "idle" /\ (last'.op = "get" \/ pend'.op = "get")) =>
        LET k == IF last'.op = "get" THEN last'.key ELSE pend'.key IN
        GetStep(k) =>
            /\ Others(cache', k) = Others(cache, k)
            /\ ~MapHas(cache, k) => cache' = cache
            /\ (MapHas(cache, k) /\ MapGet(cache, k).expiry >= now) =>
                  /\ MapHas(cache', k)
                  /\ MapGet(cache', k) = MapGet(cache, k)

====
